---- MODULE Spec2Model ----
(***************************************************************************)
(* A model of simple-code-eval: the task registry (tasks/__init__.py), the *)
(* generation orchestrator (generator.py), the evaluator (evaluator.py),   *)
(* the MBPP task (tasks/mbpp.py) and the driver loop (main.py).            *)
(*                                                                         *)
(* The specifications share the variables:                                 *)
(*   SpecApi   one process calling Generator.generate_text and             *)
(*             Evaluator.evaluate with arbitrary arguments;                *)
(*   Spec      several replicas running main() over the selected tasks;    *)
(*   SpecPass  the per-record pass@k estimator applied to (n, c, k);       *)
(*   SpecPool  the worker pool that executes the candidates;               *)
(*   SpecGen   one call of generate_text on drawn arguments;               *)
(*   SpecText  MBPP.postprocess_generation applied to drawn texts.         *)
(* The modules generation.py, tasks/base.py, tasks/humaneval.py,           *)
(* tasks/mbppplus.py and tasks/custom_metrics/ are not part of the source  *)
(* tree at hand; what the model needs of them follows spec.md.             *)
(***************************************************************************)
EXTENDS Integers, Sequences, FiniteSets, TLC

VARIABLES
    args,        \* the parsed command line (Generator.args, Evaluator.args)
    reqExec,     \* requires_execution of the tasks whose class is not at hand
    evAllow,     \* Evaluator.allow_code_execution
    env,         \* SpecApi: os.environ of the calling process
    last,        \* SpecApi: the last call, its arguments and what it did
    task_names,  \* Spec: main's task_names
    pc,          \* Spec: per replica, the position in main's loop body
    ti,          \* Spec: per replica, the index of the current task
    penv,        \* Spec: per replica, os.environ
    gens,        \* Spec: per replica, main's local 'generations'
    refs,        \* Spec: per replica, main's local 'references'
    results,     \* Spec: per replica, main's local 'results'
    files,       \* Spec: the file system shared by the replicas
    evaluated,   \* Spec: per replica, the tasks evaluate() returned for
    genCalls,    \* Spec: per replica, the calls of generate_text
    graded,      \* Spec: per replica, what evaluate handed to process_results
    pn,          \* SpecPass: n, the candidates generated for the record
    pcorrect,    \* SpecPass: c, the candidates that passed
    pk,          \* SpecPass: k
    pval,        \* SpecPass: pass@k of (pn, pcorrect, pk), a fraction
    pprev,       \* SpecPass: pass@k of (pn, pcorrect - 1, pk)
    kind,        \* SpecPool: per candidate, how its program behaves
    submitted,   \* SpecPool: whether process_results handed the batch over
    nextCand,    \* SpecPool: the next queued candidate
    exec,        \* SpecPool: per candidate, its execution and the time it has run
    outcomes,    \* SpecPool: per candidate, the outcomes recorded for it
    tprompt,     \* SpecText: get_prompt(doc) of the record
    tgen,        \* SpecText: the decoded generation
    tout,        \* SpecText: what postprocess_generation returned last
    tprev,       \* SpecText: what it returned the time before
    tapplied     \* SpecText: how often it was applied

sharedVars == <<args, reqExec, evAllow>>
apiVars == <<env, last>>
mainVars ==
    <<task_names, pc, ti, penv, gens, refs, results, files, evaluated,
      genCalls, graded>>
passVars == <<pn, pcorrect, pk, pval, pprev>>
poolVars == <<kind, submitted, nextCand, exec, outcomes>>
textVars == <<tprompt, tgen, tout, tprev, tapplied>>
vars == <<sharedVars, apiVars, mainVars, passVars, poolVars, textVars>>

----------------------------------------------------------------------------
(* Bounds of the model. *)

DatasetLen == 3      \* records in a task's dataset
MaxLimit == 2        \* args.limit ranges over 0 (None) .. MaxLimit
MaxStart == 1        \* args.limit_start ranges over 0 .. MaxStart, and DatasetLen
MaxSamples == 2      \* args.n_samples ranges over 1 .. MaxSamples
MaxExtra == 1        \* candidates per record beyond n_samples that sharding adds
MaxCkpt == 2         \* entries of a caller-made checkpoint
MaxEntryLen == 2     \* candidates in one entry of a caller-made checkpoint
NumReplicas == 2     \* processes running main()
MaxSelected == 2     \* tasks selected on the command line
MaxN == 6            \* pass@k: n ranges over 0 .. MaxN
NumCands == 5        \* SpecPool: candidates in the batch

Min(a, b) == IF a < b THEN a ELSE b

Max(a, b) == IF a > b THEN a ELSE b

----------------------------------------------------------------------------
(* tasks/__init__.py: the registry. *)

TASK_REGISTRY == {"humaneval", "mbpp", "mbppplus"}

ALL_TASKS == TASK_REGISTRY

\* A name no task is registered under.
UnknownNames == {"nope"}

TaskNames == ALL_TASKS \cup UnknownNames

\* The registered classes that are not in the source tree.
MissingTasks == {"humaneval", "mbppplus"}

\* Whether get_task's call TASK_REGISTRY[name](**kwargs) supplies every
\* parameter the class requires.  kwargs holds at most "prompt" and
\* "load_data_path"; MBPP.__init__ requires apply_chat_template.
ConstructorAccepts(name) == name # "mbpp"

\* A lookup that hands every name to the constructor, registered or not.
get_task_no_miss(name) ==
    IF ~ConstructorAccepts(name) THEN "TypeError" ELSE "ok"

\* get_task: "ok" (a task object), or the exception it raises.
get_task(name) ==
    IF name \notin TASK_REGISTRY THEN "KeyError"
    ELSE IF ~ConstructorAccepts(name) THEN "TypeError"
    ELSE "ok"

\* task.requires_execution
requires_execution(name) == IF name = "mbpp" THEN TRUE ELSE reqExec[name]

----------------------------------------------------------------------------
(* The command line, as far as the modelled code reads it. *)

\* limit = 0 stands for None ("if self.args.limit" is false for both).
GenArgs ==
    [limit : 0..MaxLimit,
     limit_start : (0..MaxStart) \cup {DatasetLen},
     n_samples : 1..MaxSamples,
     extra : 0..MaxExtra,
     check_references : BOOLEAN]

MainFlags ==
    [allow_code_execution : BOOLEAN,
     generation_only : BOOLEAN,
     load_generations_path : BOOLEAN,
     save_generations : BOOLEAN,
     save_references : BOOLEAN]

\* The record holding the fields of both.
MkArgs(g, f) ==
    [limit |-> g.limit, limit_start |-> g.limit_start,
     n_samples |-> g.n_samples, extra |-> g.extra,
     check_references |-> g.check_references,
     allow_code_execution |-> f.allow_code_execution,
     generation_only |-> f.generation_only,
     load_generations_path |-> f.load_generations_path,
     save_generations |-> f.save_generations,
     save_references |-> f.save_references]

\* parse_args' defaults: limit None, limit_start 0, the store_true flags off.
DefaultGen ==
    [limit |-> 0, limit_start |-> 0, n_samples |-> 1, extra |-> 0,
     check_references |-> FALSE]

DefaultFlags ==
    [allow_code_execution |-> FALSE, generation_only |-> FALSE,
     load_generations_path |-> FALSE, save_generations |-> FALSE,
     save_references |-> FALSE]

----------------------------------------------------------------------------
(* generator.py: Generator.generate_text. *)

\* task.get_reference(dataset[i])
Ref(i) == <<"ref", i, 0>>

\* The s-th completion the generation collaborator returns for record i; the
\* collaborator is deterministic.
Gen(i, s) == <<"gen", i, s>>

\* What the replicas together produce for record i: n_samples candidates,
\* and those that an uneven division over the replicas adds.
RawList(i, a) == [s \in 1..(a.n_samples + a.extra) |-> Gen(i, s)]

\* lines 23-31: n_tasks before a checkpoint is taken into account
n_tasks_of(a) ==
    IF a.limit # 0
    THEN Min(a.limit, DatasetLen - a.limit_start)
    ELSE DatasetLen - a.limit_start

\* lines 32-35: range(limit_start, limit_start + n_tasks)
References(a) ==
    [j \in 1..Max(n_tasks_of(a), 0) |-> Ref(a.limit_start + j - 1)]

\* lines 37-47: MBPP.get_reference has no get_solution parameter
Solutions(a) == [j \in 1..Len(References(a)) |-> <<References(a)[j]>>]

NonEmpty(g) == g # <<>>

\* lines 49-51: [gen for gen in intermediate_generations if gen]
curr_generations(ckpt) ==
    IF ckpt # <<>> THEN SelectSeq(ckpt, NonEmpty) ELSE <<>>

\* line 52: n_tasks -= len(curr_generations)
remaining_tasks(a, ckpt) == n_tasks_of(a) - Len(curr_generations(ckpt))

\* A resume that starts over at the first record.
curr_sample_idx_restart(ckpt) == 0

\* line 54: curr_sample_idx = len(curr_generations)
curr_sample_idx(ckpt) == Len(curr_generations(ckpt))

\* generation.parallel_generations: the checkpoint's entries, then the
\* candidates of the next n_tasks records from limit_start + curr_sample_idx.
parallel_generations(a, n_tasks, curr_idx, intermediate) ==
    intermediate \o
    [j \in 1..Max(n_tasks, 0) |-> RawList(a.limit_start + curr_idx + j - 1, a)]

\* generation[: n_samples]
Slice(g, n) == SubSeq(g, 1, Min(n, Len(g)))

\* lines 70-76: the test reads generations[0] only
NeedsTrim(g, a) == Len(g[1]) > a.n_samples

TrimExtra(g, a) ==
    IF NeedsTrim(g, a) THEN [j \in 1..Len(g) |-> Slice(g[j], a.n_samples)] ELSE g

NoWork(e) ==
    [err |-> e, gens |-> <<>>, refs |-> <<>>, reads |-> 0, requests |-> 0,
     warned |-> FALSE]

\* generate_text(task_name, intermediate_generations): what it returns or
\* raises, the dataset records it read, the generation requests it made and
\* whether it warned.
generate_text(name, a, ckpt) ==
    IF get_task(name) # "ok" THEN NoWork(get_task(name))
    ELSE IF a.check_references
    THEN [err |-> "none", gens |-> Solutions(a), refs |-> References(a),
          reads |-> Len(References(a)), requests |-> 0, warned |-> FALSE]
    ELSE LET n == remaining_tasks(a, ckpt)
             g == parallel_generations(a, n, curr_sample_idx(ckpt),
                                       curr_generations(ckpt))
         IN  IF g = <<>>
             THEN [err |-> "IndexError", gens |-> <<>>, refs |-> <<>>,
                   reads |-> Len(References(a)), requests |-> 0,
                   warned |-> FALSE]
             ELSE [err |-> "none", gens |-> TrimExtra(g, a),
                   refs |-> References(a),
                   reads |-> Len(References(a)) + Max(n, 0),
                   requests |-> Max(n, 0), warned |-> NeedsTrim(g, a)]

----------------------------------------------------------------------------
(* evaluator.py: Evaluator. *)

\* __init__, line 29: the flag of the command line is not read
EvaluatorInit(a) == TRUE

EnvValues == {"unset", "false", "1"}

FreshEnv == [TOKENIZERS_PARALLELISM |-> "unset", HF_ALLOW_CODE_EVAL |-> "unset"]

\* evaluate that puts os.environ back before it returns
evaluate_restoring(name, allow, e) ==
    IF get_task(name) # "ok"
    THEN [err |-> get_task(name), env |-> e, calls |-> 0]
    ELSE IF requires_execution(name) /\ ~allow
    THEN [err |-> "ExecutionNotAllowed", env |-> e, calls |-> 0]
    ELSE [err |-> "none", env |-> e, calls |-> 1]

\* evaluate, lines 43-52: what it raises, the environment it leaves and the
\* number of task.process_results calls it made.
evaluate(name, allow, e) ==
    IF get_task(name) # "ok"
    THEN [err |-> get_task(name), env |-> e, calls |-> 0]
    ELSE IF requires_execution(name) /\ ~allow
    THEN [err |-> "ExecutionNotAllowed", env |-> e, calls |-> 0]
    ELSE [err |-> "none",
          env |-> [TOKENIZERS_PARALLELISM |-> "false",
                   HF_ALLOW_CODE_EVAL |->
                       IF allow /\ requires_execution(name)
                       THEN "1" ELSE e.HF_ALLOW_CODE_EVAL],
          calls |-> 1]

----------------------------------------------------------------------------
(* The values the variables of a specification hold while another one runs. *)

Replicas == 0..(NumReplicas - 1)

\* process_results' default, the one evaluate uses
num_workers == 4

Cands == 1..NumCands

NoCall ==
    [op |-> "none", task |-> "none", ckpt |-> <<>>, err |-> "none",
     gens |-> <<>>, refs |-> <<>>, reads |-> 0, requests |-> 0,
     warned |-> FALSE, calls |-> 0, envBefore |-> FreshEnv]

ApiIdle == env = FreshEnv /\ last = NoCall

MainIdle ==
    /\ task_names = <<>>
    /\ pc = [r \in Replicas |-> "done"]
    /\ ti = [r \in Replicas |-> 1]
    /\ penv = [r \in Replicas |-> FreshEnv]
    /\ gens = [r \in Replicas |-> <<>>]
    /\ refs = [r \in Replicas |-> <<>>]
    /\ results = [r \in Replicas |-> "none"]
    /\ files = <<>>
    /\ evaluated = [r \in Replicas |-> <<>>]
    /\ genCalls = [r \in Replicas |-> 0]
    /\ graded = [r \in Replicas |-> <<>>]

PassIdle == pn = 0 /\ pcorrect = 0 /\ pk = 0 /\ pval = <<0, 1>> /\ pprev = <<0, 1>>

PoolIdle ==
    /\ kind = [c \in Cands |-> "pass"]
    /\ submitted = FALSE
    /\ nextCand = 1
    /\ exec = [c \in Cands |-> [state |-> "queued", clock |-> 0]]
    /\ outcomes = [c \in Cands |-> <<>>]

TextIdle ==
    tprompt = <<>> /\ tgen = <<>> /\ tout = <<>> /\ tprev = <<>> /\ tapplied = 0

----------------------------------------------------------------------------
(* SpecApi: a process that built a Generator and an Evaluator from args and *)
(* calls their methods.                                                     *)

\* A checkpoint a caller made up: entry p holds candidates of the record it
\* stands for, limit_start + p - 1; an entry may be empty or of any length.
CallerEntry(a, p, l) == [s \in 1..l |-> Gen(a.limit_start + p - 1, s)]

CallerCheckpoints(a) ==
    UNION {{[p \in 1..m |-> CallerEntry(a, p, ls[p])] :
                ls \in [1..m -> 0..MaxEntryLen]} : m \in 0..MaxCkpt}

\* The checkpoint generation.parallel_generations has persisted once the
\* first m records of this run are complete.
RunCheckpoint(a, m) == [j \in 1..m |-> RawList(a.limit_start + j - 1, a)]

RunCheckpoints(a) == {RunCheckpoint(a, m) : m \in 0..Max(n_tasks_of(a), 0)}

Checkpoints(a) == CallerCheckpoints(a) \cup RunCheckpoints(a)

InitApi ==
    /\ args \in {MkArgs([DefaultGen EXCEPT !.check_references = c],
                        [DefaultFlags EXCEPT !.allow_code_execution = b]) :
                    c \in BOOLEAN, b \in BOOLEAN}
    /\ reqExec \in [MissingTasks -> BOOLEAN]
    /\ evAllow = EvaluatorInit(args)
    /\ ApiIdle /\ MainIdle /\ PassIdle /\ PoolIdle /\ TextIdle

CallGenerateText ==
    \E name \in TaskNames : \E ckpt \in RunCheckpoints(args) :
        LET r == generate_text(name, args, ckpt)
        IN  /\ last' = [op |-> "generate_text", task |-> name, ckpt |-> ckpt,
                        err |-> r.err, gens |-> r.gens, refs |-> r.refs,
                        reads |-> r.reads, requests |-> r.requests,
                        warned |-> r.warned, calls |-> 0, envBefore |-> env]
            /\ UNCHANGED <<env, sharedVars, mainVars, passVars, poolVars, textVars>>

CallEvaluate ==
    \E name \in TaskNames :
        LET r == evaluate(name, evAllow, env)
        IN  /\ last' = [op |-> "evaluate", task |-> name, ckpt |-> <<>>,
                        err |-> r.err, gens |-> <<>>, refs |-> <<>>,
                        reads |-> 0, requests |-> 0, warned |-> FALSE,
                        calls |-> r.calls, envBefore |-> env]
            /\ env' = r.env
            /\ UNCHANGED <<sharedVars, mainVars, passVars, poolVars, textVars>>

NextApi == CallGenerateText \/ CallEvaluate

SpecApi == InitApi /\ [][NextApi]_vars

----------------------------------------------------------------------------
(* SpecGen: generate_text applied to a command line, a task name and a     *)
(* checkpoint.  generate_text keeps no state between calls, so a behaviour *)
(* is one call: Init draws the arguments, GenerateTextCall applies it.     *)

InitGen ==
    /\ args \in {MkArgs(g, DefaultFlags) : g \in GenArgs}
    /\ reqExec = [t \in MissingTasks |-> TRUE]
    /\ evAllow = EvaluatorInit(args)
    /\ env = FreshEnv
    /\ \E name \in TaskNames : \E ckpt \in Checkpoints(args) :
           last = [NoCall EXCEPT !.op = "pending", !.task = name, !.ckpt = ckpt]
    /\ MainIdle /\ PassIdle /\ PoolIdle /\ TextIdle

GenerateTextCall ==
    /\ last.op = "pending"
    /\ LET r == generate_text(last.task, args, last.ckpt)
       IN  last' = [last EXCEPT !.op = "generate_text", !.err = r.err,
                                !.gens = r.gens, !.refs = r.refs,
                                !.reads = r.reads, !.requests = r.requests,
                                !.warned = r.warned]
    /\ UNCHANGED <<env, sharedVars, mainVars, passVars, poolVars, textVars>>

NextGen == GenerateTextCall

SpecGen == InitGen /\ [][NextGen]_vars

----------------------------------------------------------------------------
(* Properties of Evaluator.evaluate and of the registry (SpecApi).        *)

\* C1: for a task that requires execution, evaluate called when the command
\* line did not set allow_code_execution raises the execution-not-allowed
\* error and calls task.process_results zero times.
C1_PermissionGate ==
    (/\ last.op = "evaluate"
     /\ get_task(last.task) = "ok"
     /\ requires_execution(last.task)
     /\ ~args.allow_code_execution)
    => (last.err = "ExecutionNotAllowed" /\ last.calls = 0)

\* C2: a call that names an unregistered task raises the unknown-task error
\* before any other work: generate_text has read no dataset record and asked
\* for no generation, evaluate has graded nothing and left os.environ as it
\* found it.
C2_UnknownTaskFirst ==
    (last.op \in {"generate_text", "evaluate"} /\ last.task \notin TASK_REGISTRY)
    => (/\ last.err = "KeyError"
        /\ last.reads = 0
        /\ last.requests = 0
        /\ last.gens = <<>>
        /\ last.calls = 0
        /\ env = last.envBefore)

\* C2's case: evaluate is called with an unregistered name in a process whose
\* earlier evaluate call went through.
C2_Witness ==
    /\ last.op = "evaluate"
    /\ last.task \notin TASK_REGISTRY
    /\ last.err = "KeyError"
    /\ last.envBefore.TOKENIZERS_PARALLELISM = "false"

----------------------------------------------------------------------------
(* Properties of Generator.generate_text (SpecGen).                       *)

\* generate_text returned in normal mode
ReturnedNormally ==
    last.op = "generate_text" /\ last.err = "none" /\ ~args.check_references

\* C3: when generate_text returns in normal mode, every record's candidate
\* list has exactly n_samples entries.
C3_ExactlyNSamples ==
    ReturnedNormally
    => \A j \in 1..Len(last.gens) : Len(last.gens[j]) = args.n_samples

\* What C4 calls an invalid checkpoint: longer than n_tasks, or with an empty
\* entry.
InvalidCheckpoint(a, ckpt) ==
    \/ Len(ckpt) > Max(n_tasks_of(a), 0)
    \/ \E p \in 1..Len(ckpt) : ckpt[p] = <<>>

\* C4: a checkpoint that is longer than n_tasks or has an empty entry makes
\* generate_text fail.
C4_CheckpointValidated ==
    (/\ last.op = "generate_text"
     /\ get_task(last.task) = "ok"
     /\ ~args.check_references
     /\ InvalidCheckpoint(args, last.ckpt))
    => last.err # "none"

\* The records whose candidates follow the first m entries of g.
RecordsAfter(g, m) == [j \in 1..(Len(g) - m) |-> g[m + j][1][2]]

\* C5: on resume, entry p of the checkpoint stays the candidates of record
\* limit_start + p - 1 (cut to n_samples where the lists are cut), the
\* remaining work is n_tasks minus the checkpoint's length, and the records
\* after the checkpoint follow in order, each once.
C5_CheckpointPrefix ==
    (ReturnedNormally /\ last.ckpt # <<>>)
    => (/\ Len(last.ckpt) <= Len(last.gens)
        /\ \A p \in 1..Len(last.ckpt) :
               p <= Len(last.gens)
               => \/ last.gens[p] = last.ckpt[p]
                  \/ last.gens[p] = Slice(last.ckpt[p], args.n_samples)
        /\ last.requests = n_tasks_of(args) - Len(last.ckpt)
        /\ RecordsAfter(last.gens, Min(Len(last.ckpt), Len(last.gens))) =
               [j \in 1..(n_tasks_of(args) - Len(last.ckpt)) |->
                    args.limit_start + Len(last.ckpt) + j - 1])

\* C6: resumed from a checkpoint the same run has persisted, generate_text
\* returns what the uninterrupted call returns: the same records, in the same
\* order, with the same candidates.
C6_ResumeEquivalence ==
    (last.op = "generate_text" /\ last.ckpt \in RunCheckpoints(args))
    => LET whole == generate_text(last.task, args, <<>>)
       IN  /\ last.err = whole.err
           /\ last.gens = whole.gens
           /\ last.refs = whole.refs

\* C6's case: the run was interrupted after some but not all of its records,
\* and the resumed call cut the lists to n_samples.
C6_Witness ==
    /\ ReturnedNormally
    /\ last.ckpt \in RunCheckpoints(args)
    /\ 0 < Len(last.ckpt)
    /\ Len(last.ckpt) < n_tasks_of(args)
    /\ last.warned
    /\ Len(last.gens) = n_tasks_of(args)

----------------------------------------------------------------------------
(* Spec: main.py, the loop over task_names, run by every replica.          *)

\* accelerator.is_main_process, without the test
is_main_process_any(r) == TRUE

\* accelerator.is_main_process: the replica of index 0
is_main_process(r) == r = 0

\* The lists of distinct registered names of length n: task_names is
\* ALL_TASKS or list(set(...)) of the matching names, in any order.
Selections(n) ==
    {sq \in [1..n -> ALL_TASKS] : \A i, j \in 1..n : i # j => sq[i] # sq[j]}

\* json.load of load_generations_path: generations an earlier run saved
LoadedGenerations == [j \in 1..DatasetLen |-> RawList(j - 1, DefaultGen)]

\* main's 'references = None'
NoneRefs == <<<<"None", 0, 0>>>>

GenerationsPath(t) == <<"save_generations_path", t>>

ReferencesPath(t) == <<"save_references_path", t>>

MetricPath == <<"metric_output_path", "">>

\* open(path, "w") by replica r, then json.dump(content)
WriteFile(fs, path, content, r) ==
    [p \in DOMAIN fs \cup {path} |->
        IF p = path
        THEN [content |-> content,
              writers |-> (IF path \in DOMAIN fs THEN fs[path].writers ELSE {})
                          \cup {r}]
        ELSE fs[p]]

\* generator.py lines 79-95: Generator.save_json_files
save_json_files(fs, a, g, rf, gpath, rpath, r) ==
    LET fs1 == IF a.save_generations THEN WriteFile(fs, gpath, g, r) ELSE fs
    IN  IF a.save_references THEN WriteFile(fs1, rpath, rf, r) ELSE fs1

\* main.py line 342: {task_name: results, "config": vars(args)}
ResultsDoc(t, res) == (t :> res) @@ ("config" :> "args")

\* What evaluate returns for task t, (pass_at_k, results)
ResultOf(t) == t

InitMain ==
    /\ args \in {MkArgs(DefaultGen, f) : f \in MainFlags}
    /\ reqExec \in [MissingTasks -> BOOLEAN]
    /\ evAllow = EvaluatorInit(args)
    /\ task_names \in UNION {Selections(n) : n \in 0..Min(MaxSelected, Cardinality(ALL_TASKS))}
    /\ pc = [r \in Replicas |-> IF task_names = <<>> THEN "done" ELSE "generate"]
    /\ ti = [r \in Replicas |-> 1]
    /\ penv = [r \in Replicas |-> FreshEnv]
    /\ gens = [r \in Replicas |-> <<>>]
    /\ refs = [r \in Replicas |-> <<>>]
    /\ results = [r \in Replicas |-> "none"]
    /\ files = <<>>
    /\ evaluated = [r \in Replicas |-> <<>>]
    /\ genCalls = [r \in Replicas |-> 0]
    /\ graded = [r \in Replicas |-> <<>>]
    /\ ApiIdle /\ PassIdle /\ PoolIdle /\ TextIdle

\* main.py lines 311-331: generate or load, then save
MainGenerate(r) ==
    /\ pc[r] = "generate"
    /\ LET t == task_names[ti[r]]
           g == generate_text(t, args, <<>>)
       IN  IF ~args.load_generations_path
           THEN IF g.err # "none"
                THEN /\ pc' = [pc EXCEPT ![r] = "crashed"]
                     /\ genCalls' = [genCalls EXCEPT ![r] = @ + 1]
                     /\ UNCHANGED <<gens, refs, files>>
                ELSE /\ gens' = [gens EXCEPT ![r] = g.gens]
                     /\ genCalls' = [genCalls EXCEPT ![r] = @ + 1]
                     /\ refs' = [refs EXCEPT ![r] = g.refs]
                     /\ files' =
                            IF is_main_process(r) /\ args.save_generations
                            THEN save_json_files(files, args, g.gens, g.refs,
                                                 GenerationsPath(t),
                                                 ReferencesPath(t), r)
                            ELSE files
                     /\ pc' = [pc EXCEPT ![r] = "evaluate"]
           ELSE /\ gens' = [gens EXCEPT ![r] = LoadedGenerations]
                /\ refs' = [refs EXCEPT ![r] = NoneRefs]
                /\ pc' = [pc EXCEPT ![r] = "evaluate"]
                /\ UNCHANGED <<files, genCalls>>
    /\ UNCHANGED <<task_names, ti, penv, results, evaluated, graded>>
    /\ UNCHANGED <<sharedVars, apiVars, passVars, poolVars, textVars>>

\* The position after the loop body: the next task, or the end of main
Advance(r) ==
    /\ ti' = [ti EXCEPT ![r] = @ + 1]
    /\ pc' = [pc EXCEPT ![r] =
                 IF ti[r] + 1 > Len(task_names) THEN "done" ELSE "generate"]

\* main.py lines 333-344: evaluate, then write the results file
MainEvaluate(r) ==
    /\ pc[r] = "evaluate"
    /\ LET t == task_names[ti[r]]
           e == evaluate(t, evAllow, penv[r])
       IN  IF args.generation_only
           THEN /\ Advance(r)
                /\ UNCHANGED <<penv, results, files, evaluated, graded>>
           ELSE IF e.err # "none"
           THEN /\ pc' = [pc EXCEPT ![r] = "crashed"]
                /\ UNCHANGED <<ti, penv, results, files, evaluated, graded>>
           ELSE /\ penv' = [penv EXCEPT ![r] = e.env]
                /\ results' = [results EXCEPT ![r] = ResultOf(t)]
                /\ evaluated' = [evaluated EXCEPT ![r] = Append(@, t)]
                /\ graded' = [graded EXCEPT ![r] =
                                  Append(@, [task |-> t, generations |-> gens[r],
                                             references |-> refs[r]])]
                /\ files' =
                       IF is_main_process(r)
                       THEN WriteFile(files, MetricPath,
                                      ResultsDoc(t, ResultOf(t)), r)
                       ELSE files
                /\ Advance(r)
    /\ UNCHANGED <<task_names, gens, refs, genCalls>>
    /\ UNCHANGED <<sharedVars, apiVars, passVars, poolVars, textVars>>

Next ==
    \E r \in Replicas : MainGenerate(r) \/ MainEvaluate(r)

Spec == InitMain /\ [][Next]_vars

\* C7: only the coordinating replica, the one of index 0, ever opens the
\* generations, references or results files for writing.
C7_OnlyMainWrites ==
    \A p \in DOMAIN files : files[p].writers \subseteq {0}

\* C7's case: another replica ran the loop to its end, evaluation included,
\* and the generations and results files were written.
C7_Witness ==
    /\ \E r \in Replicas : r # 0 /\ pc[r] = "done" /\ evaluated[r] # <<>>
    /\ MetricPath \in DOMAIN files
    /\ \E t \in ALL_TASKS : GenerationsPath(t) \in DOMAIN files

Range(sq) == {sq[i] : i \in 1..Len(sq)}

\* C8: once main has finished a run with evaluation enabled, the results file
\* is one object that maps the name of each evaluated task to its result and
\* holds the configuration.
C8_ResultsHoldEveryTask ==
    (/\ \A r \in Replicas : pc[r] = "done"
     /\ ~args.generation_only
     /\ task_names # <<>>)
    => (/\ MetricPath \in DOMAIN files
        /\ DOMAIN files[MetricPath].content = Range(task_names) \cup {"config"}
        /\ \A t \in Range(task_names) :
               files[MetricPath].content[t] = ResultOf(t))

----------------------------------------------------------------------------
(* SpecPass: the per-record estimator of custom_metrics, as spec.md 4.4    *)
(* states it.  A value is a fraction <<numerator, denominator>>.          *)

RECURSIVE Choose(_, _)
\* C(n, k)
Choose(n, k) ==
    IF k = 0 THEN 1
    ELSE IF n = 0 THEN 0
    ELSE Choose(n - 1, k - 1) + Choose(n - 1, k)

\* The estimator with the complement left out: C(n-c, k) / C(n, k).
PassAtKNoComplement(n, c, k) ==
    IF n - c < k THEN <<1, 1>> ELSE <<Choose(n - c, k), Choose(n, k)>>

\* pass@k = 1 - C(n-c, k) / C(n, k) when n - c >= k, else 1.0
PassAtK(n, c, k) ==
    IF n - c < k
    THEN <<1, 1>>
    ELSE <<Choose(n, k) - Choose(n - c, k), Choose(n, k)>>

FracLeq(a, b) == a[1] * b[2] <= b[1] * a[2]

InUnit(a) == a[2] > 0 /\ 0 <= a[1] /\ a[1] <= a[2]

IsOne(a) == a[1] = a[2]

IsZero(a) == a[1] = 0

InitPass ==
    /\ pn \in 0..MaxN
    /\ pk \in 0..pn
    /\ pcorrect = 0
    /\ pval = PassAtK(pn, 0, pk)
    /\ pprev = pval
    /\ args = MkArgs(DefaultGen, DefaultFlags)
    /\ reqExec = [t \in MissingTasks |-> TRUE]
    /\ evAllow = EvaluatorInit(args)
    /\ ApiIdle /\ MainIdle /\ PoolIdle /\ TextIdle

\* One more candidate of the record passed: c grows by one and the estimate
\* is taken again.
CountPassed ==
    /\ pcorrect < pn
    /\ pcorrect' = pcorrect + 1
    /\ pprev' = pval
    /\ pval' = PassAtK(pn, pcorrect + 1, pk)
    /\ UNCHANGED <<pn, pk, sharedVars, apiVars, mainVars, poolVars, textVars>>

NextPass == CountPassed

SpecPass == InitPass /\ [][NextPass]_vars

\* C9 as stated: for 0 <= c <= n and 0 <= k <= n, pass@k lies in [0, 1], does
\* not decrease when c grows, and is 1 when c = n.
C9_PassAtKAsStated ==
    /\ InUnit(pval)
    /\ FracLeq(pprev, pval)
    /\ (pcorrect = pn => IsOne(pval))

\* C9, amended: for 0 <= c <= n and 0 <= k <= n, pass@k lies in [0, 1] and
\* does not decrease when c grows; it is 1 when c = n and k >= 1, and it is
\* 0 for every c when k = 0.
C9_PassAtK ==
    /\ InUnit(pval)
    /\ FracLeq(pprev, pval)
    /\ (pcorrect = pn /\ pk >= 1 => IsOne(pval))
    /\ (pk = 0 => IsZero(pval))

\* C9's case: the last candidate of a record passed and the estimate rose
\* from below 1 to 1.
C9_Witness ==
    /\ pn >= 3
    /\ pcorrect = pn
    /\ pk >= 1
    /\ pk < pn
    /\ IsOne(pval)
    /\ ~IsOne(pprev)
    /\ ~IsZero(pprev)

----------------------------------------------------------------------------
(* SpecPool: the worker pool of custom_metrics that process_results hands *)
(* the batch to, as spec.md 4.3 states it.  A candidate is run by one of   *)
(* num_workers workers in a process of its own; the process ends with the  *)
(* candidate's verdict, or is killed when its time limit expires.          *)

\* The execution time limit, in clock ticks
Timeout == 1

\* How a candidate program behaves: it ends within the limit with a pass,
\* it ends within the limit with a failed assertion or another fault, or
\* ("loop") it does not end within the limit.
Kinds == {"pass", "fault", "loop"}

\* The outcomes of a program that ended by itself
Verdicts(k) == IF k = "pass" THEN {"Passed"} ELSE {"Failed", "Errored"}

Running == {c \in Cands : exec[c].state = "running"}

InitPool ==
    /\ kind \in [Cands -> Kinds]
    /\ submitted = FALSE
    /\ nextCand = 1
    /\ exec = [c \in Cands |-> [state |-> "queued", clock |-> 0]]
    /\ outcomes = [c \in Cands |-> <<>>]
    /\ args = MkArgs(DefaultGen, DefaultFlags)
    /\ reqExec = [t \in MissingTasks |-> TRUE]
    /\ evAllow = EvaluatorInit(args)
    /\ ApiIdle /\ MainIdle /\ PassIdle /\ TextIdle

\* mbpp.py lines 160-173: process_results hands every (candidate, test) pair
\* to the pool
Submit ==
    /\ ~submitted
    /\ submitted' = TRUE
    /\ UNCHANGED <<kind, nextCand, exec, outcomes>>
    /\ UNCHANGED <<sharedVars, apiVars, mainVars, passVars, textVars>>

\* A free worker takes the next queued candidate and starts its process.
Start(c) ==
    /\ submitted
    /\ c = nextCand
    /\ Cardinality(Running) < num_workers
    /\ exec' = [exec EXCEPT ![c] = [state |-> "running", clock |-> 0]]
    /\ nextCand' = nextCand + 1
    /\ UNCHANGED <<kind, submitted, outcomes>>
    /\ UNCHANGED <<sharedVars, apiVars, mainVars, passVars, textVars>>

\* Time passes for a process that does not end by itself.
Tick(c) ==
    /\ exec[c].state = "running"
    /\ kind[c] = "loop"
    /\ exec[c].clock < Timeout
    /\ exec' = [exec EXCEPT ![c].clock = @ + 1]
    /\ UNCHANGED <<kind, submitted, nextCand, outcomes>>
    /\ UNCHANGED <<sharedVars, apiVars, mainVars, passVars, textVars>>

\* The process ends by itself, with a pass, a failed assertion or a fault.
Finish(c) ==
    /\ exec[c].state = "running"
    /\ kind[c] # "loop"
    /\ exec' = [exec EXCEPT ![c].state = "ended"]
    /\ \E v \in Verdicts(kind[c]) :
           outcomes' = [outcomes EXCEPT ![c] = Append(@, v)]
    /\ UNCHANGED <<kind, submitted, nextCand>>
    /\ UNCHANGED <<sharedVars, apiVars, mainVars, passVars, textVars>>

\* A time limit that is never enforced.
KillNever(c) == FALSE /\ UNCHANGED vars

\* The limit expired: the process is killed and the outcome is TimedOut.
Kill(c) ==
    /\ exec[c].state = "running"
    /\ exec[c].clock = Timeout
    /\ exec' = [exec EXCEPT ![c] = [state |-> "ended", clock |-> 0]]
    /\ outcomes' = [outcomes EXCEPT ![c] = Append(@, "TimedOut")]
    /\ UNCHANGED <<kind, submitted, nextCand>>
    /\ UNCHANGED <<sharedVars, apiVars, mainVars, passVars, textVars>>

NextPool ==
    \/ Submit
    \/ \E c \in Cands : Start(c) \/ Tick(c) \/ Finish(c) \/ Kill(c)

\* The pool does not stop while a worker can start a candidate, a process
\* can run or end, or a timer can fire.
FairPool == WF_vars(NextPool)

SpecPool == InitPool /\ [][NextPool]_vars /\ FairPool

\* Every candidate has exactly one outcome, and TimedOut if it never ends.
AllSettled ==
    \A c \in Cands :
        /\ Len(outcomes[c]) = 1
        /\ (kind[c] = "loop" => outcomes[c] = <<"TimedOut">>)
        /\ (kind[c] # "loop" => outcomes[c][1] \in Verdicts(kind[c]))

\* C10: a candidate that never terminates is eventually killed and gets the
\* outcome TimedOut, and every submitted candidate eventually has exactly one
\* outcome, and never more than one: a candidate that times out or faults
\* neither ends the batch nor blocks those queued after it.
C10_PoolLiveness ==
    /\ [](\A c \in Cands : Len(outcomes[c]) <= 1)
    /\ <>[]AllSettled

\* C10's case: never-ending candidates held every worker, they were killed,
\* and a candidate queued behind them, after a faulting one, has its outcome.
C10_Witness ==
    /\ \A c \in 1..num_workers : kind[c] = "loop" /\ outcomes[c] = <<"TimedOut">>
    /\ \E d \in Cands : d > num_workers /\ outcomes[d] = <<"Errored">>

----------------------------------------------------------------------------
(* SpecText: MBPP.postprocess_generation (tasks/mbpp.py) applied to the     *)
(* decoded text of one candidate. A text is a sequence of characters.      *)

\* The characters that cannot stand in a string: line feed, double quote
\* and backtick
NL == "LF"
DQ == "QUOTE"
BT == "BACKTICK"

\* The texts of the words
Word(s) ==
    CASE s = "class"  -> <<"c", "l", "a", "s", "s">>
      [] s = "assert" -> <<"a", "s", "s", "e", "r", "t">>
      [] s = "print"  -> <<"p", "r", "i", "n", "t">>
      [] s = "if"     -> <<"i", "f">>
      [] s = "[DONE]" -> <<"[", "D", "O", "N", "E", "]">>

\* mbpp.py lines 37-46: the stop_words MBPP.__init__ hands to Task.__init__
stop_words ==
    << <<NL>> \o Word("class"),
       <<NL>> \o Word("assert"),
       <<NL, DQ, DQ, DQ>>,
       <<NL>> \o Word("print"),
       <<NL>> \o Word("if"),
       <<NL, "<", "|", "/">>,
       <<NL, BT, BT, BT>>,
       <<NL>> \o Word("[DONE]") >>

\* s[i:] of Python, i counted from 0
From(s, i) == IF i >= Len(s) THEN <<>> ELSE SubSeq(s, i + 1, Len(s))

\* s[:i] of Python
UpTo(s, i) == IF i <= 0 THEN <<>> ELSE SubSeq(s, 1, Min(i, Len(s)))

\* s.startswith(sub, i), i counted from 0
StartsAt(s, sub, i) ==
    /\ i + Len(sub) <= Len(s)
    /\ \A j \in 1..Len(sub) : s[i + j] = sub[j]

\* str.find: the lowest index at which sub occurs in s, -1 if it does not
RECURSIVE FindFrom(_, _, _)
FindFrom(s, sub, i) ==
    IF i + Len(sub) > Len(s) THEN -1
    ELSE IF StartsAt(s, sub, i) THEN i
    ELSE FindFrom(s, sub, i + 1)

find(s, sub) == FindFrom(s, sub, 0)

\* The loop of Task._stop_at_stop_token over stop_tokens[t..], min_stop_index
\* being the least index found so far
RECURSIVE MinStopIndex(_, _, _, _)
MinStopIndex(decoded_string, stop_tokens, t, min_stop_index) ==
    IF t > Len(stop_tokens) THEN min_stop_index
    ELSE LET stop_index == find(decoded_string, stop_tokens[t])
         IN  MinStopIndex(decoded_string, stop_tokens, t + 1,
                 IF stop_index # -1 /\ stop_index < min_stop_index
                 THEN stop_index ELSE min_stop_index)

\* Task._stop_at_stop_token: the text before the first stop token
stop_at_stop_token(decoded_string, stop_tokens) ==
    UpTo(decoded_string,
         MinStopIndex(decoded_string, stop_tokens, 1, Len(decoded_string)))

\* postprocess_generation that hands the whole generation, prompt included,
\* to _stop_at_stop_token
postprocess_generation_whole(generation, prompt) ==
    prompt \o stop_at_stop_token(generation, stop_words)

\* mbpp.py lines 149-158: MBPP.postprocess_generation, prompt being
\* self.get_prompt(self.dataset["test"][idx])
postprocess_generation(generation, prompt) ==
    prompt \o stop_at_stop_token(From(generation, Len(prompt)), stop_words)

\* The pieces the texts of the runs are put together from
MaxChunks == 3
MaxPromptChunks == 1

Chunks ==
    { <<"x">>, <<NL>>, Word("if"), <<NL>> \o Word("if"), <<NL, BT, BT, BT>> }

RECURSIVE Texts(_)
Texts(n) ==
    IF n = 0 THEN {<<>>}
    ELSE LET shorter == Texts(n - 1)
         IN  shorter \cup {t \o c : t \in shorter, c \in Chunks}

\* A record's prompt, and a decoded generation: the prompt and a completion,
\* or a text that does not repeat the prompt
InitText ==
    /\ tprompt \in Texts(MaxPromptChunks)
    /\ tgen \in {tprompt \o c : c \in Texts(MaxChunks)} \cup Texts(MaxChunks)
    /\ tout = <<>>
    /\ tprev = <<>>
    /\ tapplied = 0
    /\ args = MkArgs(DefaultGen, DefaultFlags)
    /\ reqExec = [t \in MissingTasks |-> TRUE]
    /\ evAllow = EvaluatorInit(args)
    /\ ApiIdle /\ MainIdle /\ PassIdle /\ PoolIdle

\* postprocess_generation(generation, idx), first on the generation and then
\* on its own result
Postprocess ==
    /\ tapplied < 2
    /\ tout' = postprocess_generation(IF tapplied = 0 THEN tgen ELSE tout, tprompt)
    /\ tprev' = tout
    /\ tapplied' = tapplied + 1
    /\ UNCHANGED <<tprompt, tgen>>
    /\ UNCHANGED <<sharedVars, apiVars, mainVars, passVars, poolVars>>

NextText == Postprocess

SpecText == InitText /\ [][NextText]_vars

\* The places, counted from 1, of text c at which some stop sequence occurs
StopPlaces(c) ==
    {i \in 1..Len(c) :
        \E w \in Range(stop_words) :
            /\ i + Len(w) - 1 <= Len(c)
            /\ SubSeq(c, i, i + Len(w) - 1) = w}

\* The part of c before the earliest occurrence of a stop sequence
BeforeFirstStop(c) ==
    IF StopPlaces(c) = {} THEN c
    ELSE SubSeq(c, 1, (CHOOSE i \in StopPlaces(c) :
                          \A j \in StopPlaces(c) : i <= j) - 1)

\* C11: postprocess_generation returns the prompt followed by the part of
\* the completion (the text after the prompt) before the earliest occurrence
\* of any stop sequence, the whole completion when none occurs, and applied
\* to its own result it returns that result.
C11_StopTruncation ==
    LET completion == From(tgen, Len(tprompt))
        first == IF tapplied = 1 THEN tout ELSE tprev
    IN  /\ tapplied >= 1 => first = tprompt \o BeforeFirstStop(completion)
        /\ tapplied = 2 => tout = tprev

\* C11's case: the prompt itself holds a stop sequence, two different stop
\* sequences occur in the completion, the one later in stop_words first and
\* not at its start, and the function was applied to its own result.
C11_Witness ==
    LET completion == From(tgen, Len(tprompt))
    IN  /\ tapplied = 2
        /\ StopPlaces(tprompt) # {}
        /\ find(completion, stop_words[7]) > 0
        /\ find(completion, stop_words[5]) > find(completion, stop_words[7])
        /\ tout = tprompt \o UpTo(completion, find(completion, stop_words[7]))

----------------------------------------------------------------------------
(* Claims on Spec about loaded generations and saved references.           *)

\* C12: when load_generations_path is given, generate_text is never called
\* for any selected task, and every evaluation grades the loaded generations
\* against the references of its task, one reference per record of the
\* loaded generations.
C12_LoadedRunGradesReferences ==
    args.load_generations_path =>
        \A r \in Replicas :
            /\ genCalls[r] = 0
            /\ \A i \in 1..Len(graded[r]) :
                   /\ graded[r][i].generations = LoadedGenerations
                   /\ graded[r][i].references = References(args)
                   /\ Len(graded[r][i].references) = Len(graded[r][i].generations)

\* The tasks of task_names the coordinating replica has generated for
ProcessedByMain ==
    {i \in 1..Len(task_names) :
        \/ i < ti[0]
        \/ i = ti[0] /\ pc[0] = "evaluate"}

\* C13: when save_references is set and generation runs, the coordinating
\* replica has written the references of every task it processed to that
\* task's references file, whatever save_generations is; when
\* save_references is unset there is no references file.
C13_ReferencesPersisted ==
    /\ (args.save_references /\ ~args.load_generations_path) =>
           \A i \in ProcessedByMain :
               /\ ReferencesPath(task_names[i]) \in DOMAIN files
               /\ files[ReferencesPath(task_names[i])].content = References(args)
               /\ files[ReferencesPath(task_names[i])].writers = {0}
    /\ ~args.save_references =>
           \A t \in ALL_TASKS : ReferencesPath(t) \notin DOMAIN files

----------------------------------------------------------------------------
(* Claims on SpecApi about the process environment and the registry.       *)

LookupErrors == {"KeyError", "TypeError"}

\* C15: for every name of ALL_TASKS the lookup through get_task returns a
\* task and raises nothing; the lookup fails only for names that are not in
\* the registry.
C15_RegisteredLookupSucceeds ==
    last.op \in {"evaluate", "generate_text"} =>
        /\ last.task \in ALL_TASKS => last.err \notin LookupErrors
        /\ last.err \in LookupErrors => last.task \notin ALL_TASKS

====
